---- MODULE Spec2Model ----
(***************************************************************************)
(* RandomFusion: the procedural seed-to-image engine of                    *)
(* src/src/randomfusion/visuals/procedural.py as a state machine, and      *)
(* get_fingerprint_from_file of src/src/randomfusion/core.py.              *)
(*                                                                         *)
(* A Python str is a sequence of one-character strings; a float is an      *)
(* exact rational [n, d] (d > 0), so range and rounding statements are     *)
(* about the real-number value of the expression the code evaluates.       *)
(***************************************************************************)
EXTENDS Integers, Sequences, FiniteSets, TLC

-----------------------------------------------------------------------------
(* Python str and int primitives the code relies on                         *)

HexLower == <<"0","1","2","3","4","5","6","7","8","9","a","b","c","d","e","f">>
HexUpper == <<"0","1","2","3","4","5","6","7","8","9","A","B","C","D","E","F">>

\* The printable ASCII characters, code 32 first: Ord(c) is the code point
\* of c.  Three characters no input uses are named instead of written.
Ascii ==
  <<" ","!","<quote>","#","$","%","&","'","(",")","*","+",",","-",".","/",
    "0","1","2","3","4","5","6","7","8","9",":",";","<","=",">","?",
    "@","A","B","C","D","E","F","G","H","I","J","K","L","M","N","O",
    "P","Q","R","S","T","U","V","W","X","Y","Z","[","<backslash>","]","^","_",
    "<backtick>","a","b","c","d","e","f","g","h","i","j","k","l","m","n","o",
    "p","q","r","s","t","u","v","w","x","y","z","{","|","}","~">>

OrdTable == [c \in {Ascii[i] : i \in 1..Len(Ascii)} |->
               31 + (CHOOSE i \in 1..Len(Ascii) : Ascii[i] = c)]

Ord(c) == OrdTable[c]

HexDigits == {HexLower[i] : i \in 1..16} \cup {HexUpper[i] : i \in 1..16}

HexValTable == [c \in HexDigits |->
                  (CHOOSE i \in 1..16 : HexLower[i] = c \/ HexUpper[i] = c) - 1]

IsHexDigit(c) == c \in HexDigits

HexVal(c) == HexValTable[c]

Min(a, b) == IF a <= b THEN a ELSE b
\* Variant: the second argument, whichever is larger.
Max_Second(a, b) == b

Max(a, b) == IF a >= b THEN a ELSE b

\* s[i:j] of Python, 0-based, for 0 <= i: the end is clamped to len(s).
Slice(s, i, j) == SubSeq(s, i + 1, Min(j, Len(s)))

\* The decimal digits of a non-negative int, as str(n) gives them.
RECURSIVE PyStr(_)
PyStr(n) == IF n < 10 THEN <<HexLower[n + 1]>>
            ELSE PyStr(n \div 10) \o <<HexLower[(n % 10) + 1]>>

RECURSIVE StripLeft(_, _)
StripLeft(s, c) == IF s # <<>> /\ s[1] = c THEN StripLeft(Tail(s), c) ELSE s

RECURSIVE StripRight(_, _)
StripRight(s, c) == IF s # <<>> /\ s[Len(s)] = c
                    THEN StripRight(SubSeq(s, 1, Len(s) - 1), c) ELSE s

\* The digit part of an int literal: hex digits, single underscores only
\* between two digits.
DigitsOk(d) ==
  /\ d # <<>>
  /\ \A i \in 1..Len(d) : IsHexDigit(d[i]) \/ d[i] = "_"
  /\ IsHexDigit(d[1]) /\ IsHexDigit(d[Len(d)])
  /\ \A i \in 1..(Len(d) - 1) : ~(d[i] = "_" /\ d[i + 1] = "_")

RECURSIVE DigitsVal(_, _)
DigitsVal(d, acc) ==
  IF d = <<>> THEN acc
  ELSE IF d[1] = "_" THEN DigitsVal(Tail(d), acc)
  ELSE DigitsVal(Tail(d), 16 * acc + HexVal(d[1]))

\* int(s, 16): surrounding blanks, one sign, a 0x prefix and underscores
\* between digits are all accepted; ok = FALSE is ValueError.
IntDigits(d, negative) ==
  IF DigitsOk(d)
  THEN [ok |-> TRUE, v |-> IF negative THEN 0 - DigitsVal(d, 0) ELSE DigitsVal(d, 0)]
  ELSE [ok |-> FALSE, v |-> 0]

\* What follows a 0x prefix may start with one underscore.
IntAfterPrefix(v) == IF v # <<>> /\ v[1] = "_" THEN Tail(v) ELSE v

IntUnsigned(u, negative) ==
  IF Len(u) >= 2 /\ u[1] = "0" /\ u[2] \in {"x", "X"}
  THEN IntDigits(IntAfterPrefix(SubSeq(u, 3, Len(u))), negative)
  ELSE IntDigits(u, negative)

IntStripped(t) ==
  IF t # <<>> /\ t[1] \in {"+", "-"}
  THEN IntUnsigned(Tail(t), t[1] = "-")
  ELSE IntUnsigned(t, FALSE)

PyIntHex(s) == IntStripped(StripRight(StripLeft(s, " "), " "))

-----------------------------------------------------------------------------
(* hashlib.sha256(...).hexdigest()                                          *)

\* Length of a SHA-256 hex digest.
DigestLen == 64

\* hashlib is a library outside the repository.  This stand-in keeps what
\* the code uses of it: a total, deterministic function of the bytes that
\* yields DigestLen lowercase hex digits.  Its digits are not those of SHA-256.
RECURSIVE DigestMix(_, _)
DigestMix(s, h) ==
  IF s = <<>> THEN h ELSE DigestMix(Tail(s), (h * 31 + Ord(s[1])) % 65521)

DigestDigit(h, i) ==
  LET a == ((h + 1) * (i + 1)) % 65521
      b == (a * 251 + 7 * i) % 65521
  IN  HexLower[(b % 16) + 1]

DigestDigits(h) == [i \in 1..DigestLen |-> DigestDigit(h, i)]

sha256_hexdigest(s) == DigestDigits(DigestMix(s, 5381 + Len(s)))

-----------------------------------------------------------------------------
(* hex_to_rgb                                                               *)

\* b"default_color_fallback"
default_color_fallback ==
  <<"d","e","f","a","u","l","t","_","c","o","l","o","r","_",
    "f","a","l","l","b","a","c","k">>

\* tuple(int(h[i:i+2], 16) for i in (0, 2, 4)); ok = FALSE is ValueError.
Triple(r, g, b) == [ok |-> r.ok /\ g.ok /\ b.ok, rgb |-> <<r.v, g.v, b.v>>]

ByteTriple(h) ==
  Triple(PyIntHex(Slice(h, 0, 2)), PyIntHex(Slice(h, 2, 4)), PyIntHex(Slice(h, 4, 6)))

\* The bytes of the first six digits of a digest.
DigestTriple(digest) == ByteTriple(Slice(digest, 0, 6)).rgb

\* Line 15: the colour of the fixed string.
FixedFallback == DigestTriple(sha256_hexdigest(default_color_fallback))

\* Lines 12-16: the parsed bytes, or the fixed colour on ValueError.
ParsedOrFixed(t) == IF t.ok THEN t.rgb ELSE FixedFallback

\* Lines 8-16, on the string line 7 has stripped.
StrippedToRgb(s) ==
  IF Len(s) # 6 THEN DigestTriple(sha256_hexdigest(s)) ELSE ParsedOrFixed(ByteTriple(s))

\* Variant: the '#' is not stripped.
hex_to_rgb_NoStrip(hex_color) == StrippedToRgb(hex_color)

\* Variant: a 6-character string that does not parse is hashed itself.
ParsedOrHashed(t, s) == IF t.ok THEN t.rgb ELSE DigestTriple(sha256_hexdigest(s))

HashOnFailure(s) ==
  IF Len(s) # 6 THEN DigestTriple(sha256_hexdigest(s)) ELSE ParsedOrHashed(ByteTriple(s), s)

hex_to_rgb_HashOnFailure(hex_color) == HashOnFailure(StripLeft(hex_color, "#"))

hex_to_rgb(hex_color) == StrippedToRgb(StripLeft(hex_color, "#"))

-----------------------------------------------------------------------------
(* _map_hex_to_range                                                        *)

RECURSIVE Gcd(_, _)
Gcd(a, b) == IF b = 0 THEN a ELSE Gcd(b, a % b)

Abs(a) == IF a < 0 THEN 0 - a ELSE a

\* The rational n/d in lowest terms, d > 0.
Rat(n, d) ==
  LET g == Gcd(Abs(n), Abs(d))
      sg == IF d < 0 THEN 0 - 1 ELSE 1
  IN  [n |-> sg * (n \div g), d |-> sg * (d \div g)]

RatInt(k) == [n |-> k, d |-> 1]

\* The numerators of a and b over their least common denominator, the
\* products kept within the 32 bits of the checker.
OverCommon(a, b) ==
  LET g == Gcd(a.d, b.d)
  IN  [an |-> a.n * (b.d \div g), bn |-> b.n * (a.d \div g),
       d |-> a.d * (b.d \div g)]

RatLe(a, b) == OverCommon(a, b).an <= OverCommon(a, b).bn
RatLt(a, b) == OverCommon(a, b).an < OverCommon(a, b).bn
RatAdd(a, b) == LET c == OverCommon(a, b) IN Rat(c.an + c.bn, c.d)
RatSub(a, b) == LET c == OverCommon(a, b) IN Rat(c.an - c.bn, c.d)
RatMul(a, b) ==
  LET g1 == Gcd(Abs(a.n), b.d)
      g2 == Gcd(Abs(b.n), a.d)
  IN  Rat((a.n \div g1) * (b.n \div g2), (a.d \div g2) * (b.d \div g1))
RatDiv(a, b) == Rat(a.n * b.d, a.d * b.n)
RatMin(a, b) == IF RatLe(a, b) THEN a ELSE b
RatMax(a, b) == IF RatLe(a, b) THEN b ELSE a

\* Variant: to the nearest integer instead of toward zero.
PyTrunc_Nearest(r) == ((2 * r.n) + r.d) \div (2 * r.d)

\* int(): truncation toward zero.
PyTrunc(r) == IF r.n >= 0 THEN r.n \div r.d ELSE 0 - ((0 - r.n) \div r.d)

\* Variant: the fraction is dropped instead of rounded.
PyRound_Truncating(r) == PyTrunc(r)

\* round(): to the nearest integer, a tie to the even neighbour.
PyRound(r) ==
  LET q == r.n \div r.d
      twice == 2 * (r.n - q * r.d)
  IN  IF twice < r.d THEN q
      ELSE IF twice > r.d THEN q + 1
      ELSE IF q % 2 = 0 THEN q ELSE q + 1

_map_hex_to_range(hex_chunk, min_val, max_val, is_int) ==
  LET raw_val == IF hex_chunk = <<>> THEN 0
                 ELSE IF PyIntHex(hex_chunk).ok THEN PyIntHex(hex_chunk).v
                 ELSE 0
      max_raw0 == IF hex_chunk = <<>> THEN 1 ELSE (16 ^ Len(hex_chunk)) - 1
      max_raw_val == IF max_raw0 <= 0 THEN 1 ELSE max_raw0
      normalized_val == Rat(raw_val, max_raw_val)
      result == RatAdd(min_val, RatMul(normalized_val, RatSub(max_val, min_val)))
  IN  IF is_int THEN RatInt(PyRound(result)) ELSE result


-----------------------------------------------------------------------------
(* Bounds and inputs                                                        *)

MaxCalls == 3      \* generator invocations in one run
MaxGrid == 2       \* largest grid_size tried
MaxWidth == 3      \* largest image width tried
MaxHeight == 2     \* image height tried
MaxRequests == 3     \* chunk requests made of one seed
MaxShortLen == 2   \* longest chunk enumerated character by character

\* Seeds of the block generator: shorter than one colour, exactly one
\* colour, long enough for one block without extension, the same with one
\* more character, and one with the same background and another block colour.
Short == <<"a">>
OneColour == <<"1","2","3","4","5","6">>
TwoColours == <<"a","b","c","d","e","f","1","2","3","4","5","6">>
TwoColoursAndOne == <<"a","b","c","d","e","f","1","2","3","4","5","6","7">>
OtherBlock == <<"a","b","c","d","e","f","6","5","4","3","2","1">>
\* A background and three blocks: as long as grid_size 2 asks for.
FourColours == <<"a","b","c","d","e","f", "1","2","3","4","5","6",
                 "6","5","4","3","2","1", "f","e","d","c","b","a">>

\* (seed, width, height, grid_size)
BlockInputs ==
  { <<s, MaxWidth, MaxHeight, 1>> :
      s \in {<<>>, Short, OneColour, TwoColours, TwoColoursAndOne} }
  \cup { <<s, MaxWidth, MaxHeight, MaxGrid>> : s \in {OneColour, TwoColours, OtherBlock, FourColours} }
  \cup { <<Short, MaxWidth, MaxHeight, g>> : g \in {0 - 1, 0} }

\* Seeds of the circle generator: two hex seeds with the same cyclic
\* character stream, a seed int() rejects, and a hex seed whose characters
\* at positions 8-9 int() reads as a negative number.
Zero == <<"0">>
ZeroZero == <<"0","0">>
NotHex == <<"g">>
Signed == <<"0","0","0","0","0","0","1","a","-","f">>
\* Five circles of base stroke 1; the jitter of the largest is 1, of the
\* next 0.
SkipFirst == <<"0","0","0","0","0","0", "0","0", "0","0",
               "f","f","0","0","0","0", "1", "0","0","f","f","0","0", "0">>

\* Lines 88-89: the defaults of the signature.
SignatureNumCircles == 10
SignatureBaseStroke == 2

\* (seed, default_num_circles, default_base_stroke): the defaults of the
\* signature, and values a caller passes that lie outside the derived ranges.
CircleInputs ==
  { <<s, SignatureNumCircles, SignatureBaseStroke>> : s \in {<<>>, Zero, ZeroZero, SkipFirst} }
  \cup { <<s, 3, 9>> : s \in {Zero, NotHex, Signed} }
  \cup { <<NotHex, 0, SignatureBaseStroke>> }

NoiseSeeds == { <<>>, <<"a">>, <<"-","f">>, <<"f","f","0","0","8">> }

MandelbrotView == <<"a","a","a","a","4","4","a","a",
                    "f","f","0","0","0","0", "0","0","f","f","0","0">>

MandelbrotSeeds == { <<>>, <<"a">>, <<"0">>, MandelbrotView }

-----------------------------------------------------------------------------
(* State                                                                    *)

VARIABLES
  pc,       \* where the running invocation is; "idle" between invocations
  call,     \* the arguments of the running (or last) invocation
  loc,      \* its local variables
  image,    \* its raster (the local `image`)
  trace,    \* what it has done so far: chunks requested, rasters created, ...
  ncalls,   \* invocations started in this run
  last,     \* outcome of the invocation that just ended
  watch,    \* an earlier outcome kept for comparison with later ones
  fn_arg,   \* argument of the helper function under test
  fn_ret    \* its return value

vars == <<pc, call, loc, image, trace, ncalls, last, watch, fn_arg, fn_ret>>

machine_vars == <<call, loc, image, trace, ncalls, last, watch>>

NoImage == [w |-> 0, h |-> 0, px |-> [p \in {} |-> <<0, 0, 0>>], ops |-> <<>>]

NoCall == [gen |-> "none", seed |-> <<>>, w |-> 0, h |-> 0,
           grid |-> 0, dnc |-> 0, dbs |-> 0]

NoOutcome == [inp |-> NoCall, image |-> NoImage, error |-> "none",
              fills |-> <<>>, others |-> 0]

\* A fresh frame: every local of the three generators, not yet assigned.
NewFrame ==
  [ background_color |-> <<0, 0, 0>>, block_width |-> 0, block_height |-> 0,
    color_data_string |-> <<>>, color_idx |-> 0, row |-> 0, col |-> 0,
    current_seed_pos |-> 0, num_circles |-> 0, base_stroke_width |-> 0,
    i |-> 0,
    scale |-> RatInt(0), octaves |-> 0, persistence |-> RatInt(0),
    lacunarity |-> RatInt(0), noise_base_seed |-> 0,
    color1 |-> <<0, 0, 0>>, color2 |-> <<0, 0, 0>>,
    x_coord |-> 0, y_coord |-> 0,
    center_x |-> 0, center_y |-> 0, step |-> 0, max_iterations |-> 0,
    palette |-> <<>> ]

NoTrace == [chunks |-> <<>>, rasters |-> 0, divisions |-> 0,
            extensions |-> 0, fills |-> <<>>, writes |-> 0,
            runs |-> <<>>, echoed |-> <<>>]

NoArg == <<>>
NoRet == <<>>

EmptySeedError == "Seed hex string cannot be empty."
GridSizeError == "Grid size must be positive."
ZeroDivisionError == "ZeroDivisionError: integer division or modulo by zero"

-----------------------------------------------------------------------------
(* Pillow: Image.new, ImageDraw.rectangle, ImageDraw.ellipse, putpixel      *)

\* Image.new("RGB", (w, h), color): every pixel is color.  A pixel holds the
\* colour the code hands to the library.
ImageNew(w, h, color) ==
  [w |-> w, h |-> h, px |-> [p \in (0..(w - 1)) \X (0..(h - 1)) |-> color],
   ops |-> <<>>]

\* Variant: the rectangle is not filled.
DrawRectangle_NoFill(img, x0, y0, x1, y1, color) == img

\* draw.rectangle([x0, y0, x1, y1], fill=color, outline=None): both corners
\* belong to the rectangle; what falls outside the image is clipped.
DrawRectangle(img, x0, y0, x1, y1, color) ==
  [img EXCEPT !.px =
     [p \in DOMAIN img.px |->
        IF x0 <= p[1] /\ p[1] <= x1 /\ y0 <= p[2] /\ p[2] <= y1
        THEN color ELSE img.px[p]]]

\* draw.ellipse(bbox, outline=color, width=width): the rendering is the
\* library's; the raster records the commands in drawing order.
DrawEllipse(img, bbox, color, width) ==
  [img EXCEPT !.ops = Append(@, [bbox |-> bbox, outline |-> color, width |-> width])]

PutPixel(img, x, y, color) == [img EXCEPT !.px[<<x, y>>] = color]

\* a // b of Python (floor division) for b # 0.
PyFloorDiv(a, b) == IF b > 0 THEN a \div b ELSE (0 - a) \div (0 - b)

-----------------------------------------------------------------------------
(* Invocation bookkeeping                                                   *)

\* The invocation ends: its outcome goes to the caller.  The first outcomes
\* with a raster may be kept in `watch` for comparison with later ones.
Complete(outcome) ==
  /\ pc' = "idle"
  /\ last' = outcome
  /\ \/ /\ watch = NoOutcome
        /\ outcome.error = ""
        /\ watch' = outcome
     \/ /\ watch' = IF watch # NoOutcome /\ outcome.inp # watch.inp
                    THEN [watch EXCEPT !.others = 1]
                    ELSE watch

Returned(img) ==
  Complete([inp |-> call, image |-> img, error |-> "",
            fills |-> trace.fills, others |-> 0])

\* An exception leaves the generator: no raster reaches the caller.
Raised(args, msg) ==
  [inp |-> args, image |-> NoImage, error |-> msg, fills |-> <<>>, others |-> 0]

CanCall == pc = "idle" /\ ncalls < MaxCalls

-----------------------------------------------------------------------------
(* generate_color_blocks                                                    *)

\* Variant: the seed is not checked.
SeedMissing_NoCheck(seed_hex_string) == FALSE

\* `if not seed_hex_string`
SeedMissing(seed_hex_string) == seed_hex_string = <<>>

\* Variant: a grid size of zero is let through.
GridSizeInvalid_Strict(grid_size) == grid_size < 0

\* `if grid_size <= 0`
GridSizeInvalid(grid_size) == grid_size <= 0

Ten == <<"1","0","1","0","1","0">>

BlocksArgs(seed, w, h, g) ==
  [gen |-> "color_blocks", seed |-> seed, w |-> w, h |-> h,
   grid |-> g, dnc |-> 0, dbs |-> 0]

\* Lines 27-48: validation, first background, block size, working string.
CallColorBlocks(seed, w, h, g) ==
  LET args == BlocksArgs(seed, w, h, g)
      bg_hex == IF Len(seed) >= 6 THEN Slice(seed, 0, 6) ELSE Ten
      background_color == hex_to_rgb(bg_hex)
  IN
  /\ CanCall
  /\ call' = args
  /\ ncalls' = ncalls + 1
  /\ UNCHANGED <<fn_arg, fn_ret>>
  /\ IF SeedMissing(seed)
     THEN /\ loc' = NewFrame /\ image' = NoImage /\ trace' = NoTrace
          /\ Complete(Raised(args, EmptySeedError))
     ELSE IF GridSizeInvalid(g)
     THEN /\ loc' = NewFrame /\ image' = NoImage /\ trace' = NoTrace
          /\ Complete(Raised(args, GridSizeError))
     ELSE IF g = 0
     THEN \* image_width // 0 after the raster exists
          /\ loc' = [NewFrame EXCEPT !.background_color = background_color]
          /\ image' = ImageNew(w, h, background_color)
          /\ trace' = [NoTrace EXCEPT !.rasters = 1, !.divisions = 1]
          /\ Complete(Raised(args, ZeroDivisionError))
     ELSE /\ loc' = [NewFrame EXCEPT
                       !.background_color = background_color,
                       !.block_width = PyFloorDiv(w, g),
                       !.block_height = PyFloorDiv(h, g),
                       !.color_data_string = seed]
          /\ image' = ImageNew(w, h, background_color)
          /\ trace' = [NoTrace EXCEPT !.rasters = 1, !.divisions = 2]
          /\ pc' = "cb_extend"
          /\ last' = NoOutcome
          /\ UNCHANGED watch

\* Variant: the characters of one row of blocks only.
chars_needed_OneRow == call.grid * 6

chars_needed_for_blocks == call.grid * call.grid * 6

\* Lines 49-51: one round of the extension loop.
ExtendColorData ==
  /\ pc = "cb_extend"
  /\ Len(loc.color_data_string) < chars_needed_for_blocks
  /\ loc' = [loc EXCEPT !.color_data_string =
                          @ \o sha256_hexdigest(loc.color_data_string)]
  /\ trace' = [trace EXCEPT !.extensions = @ + 1]
  /\ UNCHANGED <<pc, call, image, ncalls, last, watch, fn_arg, fn_ret>>

\* Lines 49, 54-61: the loop ends; a short seed gets its background from the
\* extended string; color_idx starts behind the background's characters.
FinishExtension ==
  LET short == Len(call.seed) < 6
      background_color == hex_to_rgb(Slice(loc.color_data_string, 0, 6))
  IN
  /\ pc = "cb_extend"
  /\ ~(Len(loc.color_data_string) < chars_needed_for_blocks)
  /\ loc' = [loc EXCEPT
               !.background_color = IF short THEN background_color ELSE @,
               !.color_idx = 6, !.row = 0, !.col = 0]
  /\ image' = IF short THEN ImageNew(call.w, call.h, background_color) ELSE image
  /\ trace' = [trace EXCEPT !.rasters = IF short THEN @ + 1 ELSE @]
  /\ pc' = "cb_draw"
  /\ UNCHANGED <<call, ncalls, last, watch, fn_arg, fn_ret>>

\* Lines 63-79: one block of the row-major double loop.
DrawBlock ==
  LET x0 == loc.col * loc.block_width
      y0 == loc.row * loc.block_height
      x1 == x0 + loc.block_width
      y1 == y0 + loc.block_height
      in_string == loc.color_idx + 6 <= Len(loc.color_data_string)
      block_hex_color ==
        IF in_string
        THEN Slice(loc.color_data_string, loc.color_idx, loc.color_idx + 6)
        ELSE Slice(sha256_hexdigest(call.seed \o PyStr(loc.row) \o PyStr(loc.col)), 0, 6)
      block_color == hex_to_rgb(block_hex_color)
      last_col == loc.col + 1 = call.grid
  IN
  /\ pc = "cb_draw"
  /\ loc.row < call.grid
  /\ image' = DrawRectangle(image, x0, y0, x1, y1, block_color)
  /\ loc' = [loc EXCEPT
               !.color_idx = IF in_string THEN @ + 6 ELSE @,
               !.col = IF last_col THEN 0 ELSE @ + 1,
               !.row = IF last_col THEN @ + 1 ELSE @]
  /\ trace' = [trace EXCEPT !.fills = Append(@, block_color), !.writes = @ + 1]
  /\ UNCHANGED <<pc, call, ncalls, last, watch, fn_arg, fn_ret>>

\* Line 81.
ReturnColorBlocks ==
  /\ pc = "cb_draw"
  /\ ~(loc.row < call.grid)
  /\ Returned(image)
  /\ UNCHANGED <<call, loc, image, trace, ncalls, fn_arg, fn_ret>>

-----------------------------------------------------------------------------
(* generate_concentric_circles                                              *)

\* Variant: a remainder with the sign of the dividend.
PyMod_Truncating(a, b) == IF a >= 0 THEN a % b ELSE 0 - ((0 - a) % b)

\* a % b of Python for b > 0: the result is never negative.
PyMod(a, b) == a % b

\* Variant: the cursor of the previous invocation is kept.
StartPos_Stale == loc.current_seed_pos

\* Lines 98 and 224: `current_seed_pos = 0`.
StartPos == 0

\* Variant: advance_pos is False.
get_seed_chunk_NoAdvance(seed, pos, length) ==
  IF Len(seed) = 0
  THEN [chunk |-> [j \in 1..length |-> "0"], pos |-> pos]
  ELSE [chunk |-> [j \in 1..length |-> seed[(pos % Len(seed)) + 1]], pos |-> pos]

\* get_seed_chunk (lines 101-111): one character per step, the position
\* advanced after each; an empty seed gives zeros.
RECURSIVE get_seed_chunk(_, _, _)
get_seed_chunk(seed, pos, length) ==
  IF Len(seed) = 0
  THEN [chunk |-> [j \in 1..length |-> "0"], pos |-> pos]
  ELSE IF length = 0 THEN [chunk |-> <<>>, pos |-> pos]
  ELSE LET r == get_seed_chunk(seed, pos + 1, length - 1)
       IN  [chunk |-> <<seed[(pos % Len(seed)) + 1]>> \o r.chunk, pos |-> r.pos]

CirclesArgs(seed, w, h, dnc, dbs) ==
  [gen |-> "circles", seed |-> seed, w |-> w, h |-> h,
   grid |-> 0, dnc |-> dnc, dbs |-> dbs]

\* Lines 120-126.
DeriveNumCircles(num_circles_hex, default_num_circles) ==
  LET p == PyIntHex(num_circles_hex)
      n == IF p.ok THEN 5 + PyMod(p.v, 26) ELSE default_num_circles
  IN  IF n <= 0 THEN default_num_circles ELSE n

\* Lines 130-136.
DeriveBaseStroke(base_stroke_hex, default_base_stroke) ==
  LET p == PyIntHex(base_stroke_hex)
      n == IF p.ok THEN 1 + PyMod(p.v, 8) ELSE default_base_stroke
  IN  IF n <= 0 THEN default_base_stroke ELSE n

\* Lines 94-148: validation, background, circle count, base stroke width.
CallConcentricCircles(seed, w, h, dnc, dbs) ==
  LET args == CirclesArgs(seed, w, h, dnc, dbs)
      c_bg == get_seed_chunk(seed, StartPos, 6)
      c_num == get_seed_chunk(seed, c_bg.pos, 2)
      c_stroke == get_seed_chunk(seed, c_num.pos, 2)
      background_color == hex_to_rgb(c_bg.chunk)
      num_circles == DeriveNumCircles(c_num.chunk, dnc)
  IN
  /\ CanCall
  /\ call' = args
  /\ ncalls' = ncalls + 1
  /\ UNCHANGED <<fn_arg, fn_ret>>
  /\ IF SeedMissing(seed)
     THEN /\ loc' = NewFrame /\ image' = NoImage /\ trace' = NoTrace
          /\ Complete(Raised(args, EmptySeedError))
     ELSE /\ loc' = [NewFrame EXCEPT
                       !.current_seed_pos = c_stroke.pos,
                       !.background_color = background_color,
                       !.num_circles = num_circles,
                       !.base_stroke_width = DeriveBaseStroke(c_stroke.chunk, dbs),
                       !.i = num_circles]
          /\ image' = ImageNew(w, h, background_color)
          /\ trace' = [NoTrace EXCEPT
                         !.rasters = 1,
                         !.chunks = << [pos |-> StartPos, len |-> 6],
                                       [pos |-> c_bg.pos, len |-> 2],
                                       [pos |-> c_num.pos, len |-> 2] >>]
          /\ pc' = "cc_loop"
          /\ last' = NoOutcome
          /\ UNCHANGED watch

\* Lines 151-186: one circle, from the largest (i = num_circles) down to 1.
DrawCircle ==
  LET center_x == PyFloorDiv(call.w, 2)
      center_y == PyFloorDiv(call.h, 2)
      max_allowable_radius == Rat(Min(call.w, call.h) * 19, 40)
      radius == RatMul(max_allowable_radius, Rat(loc.i, loc.num_circles))
      c_color == get_seed_chunk(call.seed, loc.current_seed_pos, 6)
      c_var == get_seed_chunk(call.seed, c_color.pos, 1)
      circle_color == hex_to_rgb(c_color.chunk)
      p == PyIntHex(c_var.chunk)
      stroke_variation == IF p.ok THEN PyMod(p.v, 4) ELSE 0
      current_stroke_width ==
        Max(1, Max(1, loc.base_stroke_width + stroke_variation
                        - PyFloorDiv(loc.num_circles - loc.i, 3)))
      bbox == << RatSub(RatInt(center_x), radius), RatSub(RatInt(center_y), radius),
                 RatAdd(RatInt(center_x), radius), RatAdd(RatInt(center_y), radius) >>
      drawn == RatLt(Rat(current_stroke_width, 2), radius)
  IN
  /\ pc = "cc_loop"
  /\ loc.i >= 1
  /\ image' = IF drawn
              THEN DrawEllipse(image, bbox, circle_color, current_stroke_width)
              ELSE image
  /\ loc' = [loc EXCEPT !.current_seed_pos = c_var.pos, !.i = @ - 1]
  /\ trace' = [trace EXCEPT
                 !.chunks = @ \o << [pos |-> loc.current_seed_pos, len |-> 6],
                                    [pos |-> c_color.pos, len |-> 1] >>,
                 !.writes = IF drawn THEN @ + 1 ELSE @]
  /\ UNCHANGED <<pc, call, ncalls, last, watch, fn_arg, fn_ret>>

\* Lines 147-148 (no circle at all) and 191 (the loop is over).
ReturnConcentricCircles ==
  /\ pc = "cc_loop"
  /\ ~(loc.i >= 1)
  /\ Returned(image)
  /\ UNCHANGED <<call, loc, image, trace, ncalls, fn_arg, fn_ret>>

-----------------------------------------------------------------------------
(* generate_noisescape                                                      *)

\* Variant: the cursor is left where it was.
get_chunk_NoAdvance(seed, pos, length) ==
  IF Len(seed) = 0
  THEN [chunk |-> [j \in 1..length |-> "0"], pos |-> pos]
  ELSE [chunk |-> [j \in 1..length |-> seed[((pos + j - 1) % Len(seed)) + 1]],
        pos |-> pos]

\* Variant: the cursor is kept within the seed.
get_chunk_Wrapped(seed, pos, length) ==
  IF Len(seed) = 0
  THEN [chunk |-> [j \in 1..length |-> "0"], pos |-> pos]
  ELSE [chunk |-> [j \in 1..length |-> seed[((pos + j - 1) % Len(seed)) + 1]],
        pos |-> (pos + length) % Len(seed)]

\* get_chunk (lines 227-240): the characters are read through a temporary
\* position and the cursor moves by the whole length at the end.
get_chunk(seed, pos, length) ==
  IF Len(seed) = 0
  THEN [chunk |-> [j \in 1..length |-> "0"], pos |-> pos]
  ELSE [chunk |-> [j \in 1..length |-> seed[((pos + j - 1) % Len(seed)) + 1]],
        pos |-> pos + length]

Floor(r) == r.n \div r.d

\* noise.pnoise2 is a library outside the repository.  This stand-in keeps
\* what the code uses of it: a deterministic function of its arguments with
\* values in [-1, 1], some of them beyond the nominal [-0.7, 0.7].
pnoise2(nx, ny, octaves, persistence, lacunarity, repeatx, repeaty, base) ==
  LET k == Floor(RatMul(nx, RatInt(997))) + 3 * Floor(RatMul(ny, RatInt(997)))
           + 5 * octaves + persistence.n + lacunarity.n
           + repeatx + repeaty + 7 * base
  IN  Rat((k % 21) - 10, 10)

Clamp255(v) == Max(0, Min(255, v))

\* Lines 278-288: normalise, clamp, interpolate each channel, int(), clamp.
NoiseColor(color1, color2, noise_val) ==
  LET norm0 == RatDiv(RatAdd(noise_val, Rat(7, 10)), Rat(14, 10))
      norm_noise == RatMax(RatInt(0), RatMin(RatInt(1), norm0))
      chan(k) == PyTrunc(RatAdd(RatMul(RatInt(color1[k]), RatSub(RatInt(1), norm_noise)),
                                RatMul(RatInt(color2[k]), norm_noise)))
  IN  << Clamp255(chan(1)), Clamp255(chan(2)), Clamp255(chan(3)) >>

NoiseArgs(seed, w, h) ==
  [gen |-> "noisescape", seed |-> seed, w |-> w, h |-> h,
   grid |-> 0, dnc |-> 0, dbs |-> 0]

\* Lines 221-257: validation, the four noise parameters, the noise base,
\* the two gradient colours, the raster.
CallNoisescape(seed, w, h) ==
  LET args == NoiseArgs(seed, w, h)
      c_scale == get_chunk(seed, StartPos, 2)
      c_oct == get_chunk(seed, c_scale.pos, 1)
      c_pers == get_chunk(seed, c_oct.pos, 2)
      c_lac == get_chunk(seed, c_pers.pos, 2)
      c_col1 == get_chunk(seed, c_lac.pos, 6)
      c_col2 == get_chunk(seed, c_col1.pos, 6)
  IN
  /\ CanCall
  /\ call' = args
  /\ ncalls' = ncalls + 1
  /\ UNCHANGED <<fn_arg, fn_ret>>
  /\ IF SeedMissing(seed)
     THEN /\ loc' = NewFrame /\ image' = NoImage /\ trace' = NoTrace
          /\ Complete(Raised(args, EmptySeedError))
     ELSE /\ loc' = [NewFrame EXCEPT
               !.current_seed_pos = c_col2.pos,
               !.scale = _map_hex_to_range(c_scale.chunk, RatInt(30), RatInt(120), FALSE),
               !.octaves = _map_hex_to_range(c_oct.chunk, RatInt(2), RatInt(6), TRUE).n,
               !.persistence = _map_hex_to_range(c_pers.chunk, Rat(3, 10), Rat(7, 10), FALSE),
               !.lacunarity = _map_hex_to_range(c_lac.chunk, Rat(18, 10), Rat(35, 10), FALSE),
               !.noise_base_seed =
                  PyMod(PyIntHex(Slice(sha256_hexdigest(seed), 0, 4)).v, 256),
               !.color1 = hex_to_rgb(c_col1.chunk),
               !.color2 = hex_to_rgb(c_col2.chunk)]
          /\ image' = ImageNew(w, h, <<0, 0, 0>>)
          /\ trace' = [NoTrace EXCEPT
                         !.rasters = 1,
                         !.chunks = << [pos |-> StartPos, len |-> 2],
                                       [pos |-> c_scale.pos, len |-> 1],
                                       [pos |-> c_oct.pos, len |-> 2],
                                       [pos |-> c_pers.pos, len |-> 2],
                                       [pos |-> c_lac.pos, len |-> 6],
                                       [pos |-> c_col1.pos, len |-> 6] >>]
          /\ pc' = "ns_loop"
          /\ last' = NoOutcome
          /\ UNCHANGED watch

\* Lines 259-290: one pixel of the row-major double loop.
PutNoisePixel ==
  LET nx == RatDiv(RatInt(loc.x_coord), loc.scale)
      ny == RatDiv(RatInt(loc.y_coord), loc.scale)
      repeatx == PyTrunc(RatMul(RatDiv(RatInt(call.w), loc.scale), Rat(12, 10))) + 2
      repeaty == PyTrunc(RatMul(RatDiv(RatInt(call.h), loc.scale), Rat(12, 10))) + 2
      noise_val == pnoise2(nx, ny, loc.octaves, loc.persistence, loc.lacunarity,
                           repeatx, repeaty, loc.noise_base_seed)
      last_x == loc.x_coord + 1 = call.w
  IN
  /\ pc = "ns_loop"
  /\ loc.y_coord < call.h
  /\ image' = PutPixel(image, loc.x_coord, loc.y_coord,
                       NoiseColor(loc.color1, loc.color2, noise_val))
  /\ loc' = [loc EXCEPT
               !.x_coord = IF last_x THEN 0 ELSE @ + 1,
               !.y_coord = IF last_x THEN @ + 1 ELSE @]
  /\ trace' = [trace EXCEPT !.writes = @ + 1]
  /\ UNCHANGED <<pc, call, ncalls, last, watch, fn_arg, fn_ret>>

\* Line 292.
ReturnNoisescape ==
  /\ pc = "ns_loop"
  /\ ~(loc.y_coord < call.h)
  /\ Returned(image)
  /\ UNCHANGED <<call, loc, image, trace, ncalls, fn_arg, fn_ret>>

-----------------------------------------------------------------------------
(* generate_mandelbrot: imported by cli.py and the tests, absent from        *)
(* procedural.py.  It is taken from section 4.6 of the specification and     *)
(* from the tests; where the specification leaves the derivation of the view *)
(* window, the iteration cap and the palette open, one derivation through    *)
(* get_chunk and _map_hex_to_range is fixed here, with a view window whose   *)
(* pixels fall on points with whole coordinates.                             *)

MandelbrotArgs(seed, w, h) ==
  [gen |-> "mandelbrot", seed |-> seed, w |-> w, h |-> h,
   grid |-> 0, dnc |-> 0, dbs |-> 0]

\* z * z + c for z = <<re, im>>.
ZSquaredPlusC(z, c) == << (z[1] * z[1] - z[2] * z[2]) + c[1], (2 * z[1] * z[2]) + c[2] >>

\* |z| > 2
Escaped(z) == (z[1] * z[1]) + (z[2] * z[2]) > 4

\* The escape-time loop: iterations are counted until |z| > 2 or the cap.
RECURSIVE escape_time(_, _, _, _)
escape_time(z, c, n, max_iterations) ==
  IF n < max_iterations /\ ~Escaped(z)
  THEN escape_time(ZSquaredPlusC(z, c), c, n + 1, max_iterations)
  ELSE [n |-> n, escaped |-> Escaped(z)]

inside_color == <<0, 0, 0>>

\* Variant: a point that never escapes is coloured from the palette too.
PaletteColor_NoInside(palette, e) == palette[(e.n % Len(palette)) + 1]

\* The colour of a point from the outcome of its loop.
PaletteColor(palette, e) ==
  IF e.escaped THEN palette[(e.n % Len(palette)) + 1] ELSE inside_color

\* The complex coordinate of pixel (x, y).
PixelToComplex(frame, w, h, x, y) ==
  << frame.center_x + frame.step * (x - (w \div 2)),
     frame.center_y + frame.step * (y - (h \div 2)) >>

CallMandelbrot(seed, w, h) ==
  LET args == MandelbrotArgs(seed, w, h)
      c_cx == get_chunk(seed, StartPos, 2)
      c_cy == get_chunk(seed, c_cx.pos, 2)
      c_step == get_chunk(seed, c_cy.pos, 2)
      c_iter == get_chunk(seed, c_step.pos, 2)
      c_col1 == get_chunk(seed, c_iter.pos, 6)
      c_col2 == get_chunk(seed, c_col1.pos, 6)
  IN
  /\ CanCall
  /\ call' = args
  /\ ncalls' = ncalls + 1
  /\ UNCHANGED <<fn_arg, fn_ret>>
  /\ IF SeedMissing(seed)
     THEN /\ loc' = NewFrame /\ image' = NoImage /\ trace' = NoTrace
          /\ Complete(Raised(args, EmptySeedError))
     ELSE /\ loc' = [NewFrame EXCEPT
               !.current_seed_pos = c_col2.pos,
               !.center_x = _map_hex_to_range(c_cx.chunk, RatInt(0 - 1), RatInt(0), TRUE).n,
               !.center_y = _map_hex_to_range(c_cy.chunk, RatInt(0), RatInt(1), TRUE).n,
               !.step = _map_hex_to_range(c_step.chunk, RatInt(1), RatInt(2), TRUE).n,
               !.max_iterations = _map_hex_to_range(c_iter.chunk, RatInt(2), RatInt(4), TRUE).n,
               !.palette = << hex_to_rgb(c_col1.chunk), hex_to_rgb(c_col2.chunk) >>]
          /\ image' = ImageNew(w, h, inside_color)
          /\ trace' = [NoTrace EXCEPT
                         !.rasters = 1,
                         !.chunks = << [pos |-> StartPos, len |-> 2],
                                       [pos |-> c_cx.pos, len |-> 2],
                                       [pos |-> c_cy.pos, len |-> 2],
                                       [pos |-> c_step.pos, len |-> 2],
                                       [pos |-> c_iter.pos, len |-> 6],
                                       [pos |-> c_col1.pos, len |-> 6] >>]
          /\ pc' = "mb_render"
          /\ last' = NoOutcome
          /\ UNCHANGED watch

\* One pixel of the row-major loop; the seed is not consumed any more.
PutMandelbrotPixel ==
  /\ pc = "mb_render"
  /\ loc.y_coord < call.h
  /\ image' = PutPixel(image, loc.x_coord, loc.y_coord,
                       PaletteColor(loc.palette,
                         escape_time(<<0, 0>>,
                                     PixelToComplex(loc, call.w, call.h, loc.x_coord, loc.y_coord),
                                     0, loc.max_iterations)))
  /\ loc' = [loc EXCEPT
               !.x_coord = IF loc.x_coord + 1 = call.w THEN 0 ELSE @ + 1,
               !.y_coord = IF loc.x_coord + 1 = call.w THEN @ + 1 ELSE @]
  /\ trace' = [trace EXCEPT !.writes = @ + 1]
  /\ UNCHANGED <<pc, call, ncalls, last, watch, fn_arg, fn_ret>>

ReturnMandelbrot ==
  /\ pc = "mb_render"
  /\ ~(loc.y_coord < call.h)
  /\ Returned(image)
  /\ UNCHANGED <<call, loc, image, trace, ncalls, fn_arg, fn_ret>>

-----------------------------------------------------------------------------
(* The generators, invoked one after another                                *)

Init ==
  /\ pc = "idle"
  /\ call = NoCall
  /\ loc = NewFrame
  /\ image = NoImage
  /\ trace = NoTrace
  /\ ncalls = 0
  /\ last = NoOutcome
  /\ watch = NoOutcome
  /\ fn_arg = NoArg
  /\ fn_ret = NoRet

Next ==
  \/ \E inp \in BlockInputs : CallColorBlocks(inp[1], inp[2], inp[3], inp[4])
  \/ ExtendColorData
  \/ FinishExtension
  \/ DrawBlock
  \/ ReturnColorBlocks
  \/ \E inp \in CircleInputs :
       CallConcentricCircles(inp[1], MaxWidth, MaxHeight, inp[2], inp[3])
  \/ DrawCircle
  \/ ReturnConcentricCircles
  \/ \E seed \in NoiseSeeds : CallNoisescape(seed, MaxWidth, MaxHeight)
  \/ PutNoisePixel
  \/ ReturnNoisescape
  \/ \E seed \in MandelbrotSeeds : CallMandelbrot(seed, MaxWidth, MaxHeight)
  \/ PutMandelbrotPixel
  \/ ReturnMandelbrot

Spec == Init /\ [][Next]_vars

-----------------------------------------------------------------------------
(* The two helper functions, applied to one argument                        *)

\* Two-character groups: hex in both cases, signed, blank-padded, non-hex,
\* a bare prefix.
RgbPairs == { <<"f","f">>, <<"1","A">>, <<"-","f">>, <<"+","f">>,
              <<" ","1">>, <<"g","0">>, <<"0","x">> }

\* Chunks handed to hex_to_rgb: three groups behind zero, one or two '#',
\* every string of up to MaxShortLen + 1 characters, and one that is too long.
RgbChunks ==
  { h \o a \o b \o c : h \in { <<>>, <<"#">>, <<"#","#">> },
                      a \in RgbPairs, b \in RgbPairs, c \in RgbPairs }
  \cup UNION { [1..n -> {"#", "1", "g"}] : n \in 0..(MaxShortLen + 1) }
  \cup { <<"1","2","3","4","5","6","7","8","9">> }

\* Chunks handed to _map_hex_to_range.
MapChunks ==
  UNION { [1..n -> {"0", "7", "f", "F", "-", "+", " ", "g"}] : n \in 0..MaxShortLen }
  \cup { <<"f","f","f">>, <<"0","0","0">>, <<"1","_","0">>, <<"0","x","1">> }

\* (min_val, max_val, is_int): the four ranges generate_noisescape passes,
\* and an integer mapping whose exact values fall half-way between integers.
MapRanges ==
  { <<RatInt(30), RatInt(120), FALSE>>, <<RatInt(2), RatInt(6), TRUE>>,
    <<Rat(3, 10), Rat(7, 10), FALSE>>, <<Rat(18, 10), Rat(35, 10), FALSE>>,
    <<Rat(1, 2), Rat(31, 2), TRUE>> }

FnArgs ==
  { [fn |-> "hex_to_rgb", chunk |-> c, min_val |-> RatInt(0),
     max_val |-> RatInt(0), is_int |-> FALSE] : c \in RgbChunks }
  \cup
  { [fn |-> "_map_hex_to_range", chunk |-> c, min_val |-> r[1],
     max_val |-> r[2], is_int |-> r[3]] : c \in MapChunks, r \in MapRanges }

InitFn ==
  /\ pc = "fn_call"
  /\ fn_arg \in FnArgs
  /\ fn_ret = NoRet
  /\ call = NoCall
  /\ loc = NewFrame
  /\ image = NoImage
  /\ trace = NoTrace
  /\ ncalls = 0
  /\ last = NoOutcome
  /\ watch = NoOutcome

ApplyHexToRgb ==
  /\ pc = "fn_call"
  /\ fn_arg.fn = "hex_to_rgb"
  /\ fn_ret' = hex_to_rgb(fn_arg.chunk)
  /\ pc' = "fn_done"
  /\ UNCHANGED <<fn_arg, call, loc, image, trace, ncalls, last, watch>>

ApplyMapHexToRange ==
  /\ pc = "fn_call"
  /\ fn_arg.fn = "_map_hex_to_range"
  /\ fn_ret' = _map_hex_to_range(fn_arg.chunk, fn_arg.min_val, fn_arg.max_val,
                                 fn_arg.is_int)
  /\ pc' = "fn_done"
  /\ UNCHANGED <<fn_arg, call, loc, image, trace, ncalls, last, watch>>

NextFn == ApplyHexToRgb \/ ApplyMapHexToRange

SpecFn == InitFn /\ [][NextFn]_vars

-----------------------------------------------------------------------------
(* The colour of one noise pixel, called on its own                         *)

\* Gradient colours hex_to_rgb can return: the two ends of the byte range,
\* mixed channels, and a colour with a negative channel (chunk "-f0f01").
PxColors == { <<0, 0, 0>>, <<255, 255, 255>>, <<0, 255, 1>>, <<0 - 15, 15, 1>> }

\* Values of pnoise2: below, at, inside, at and above the nominal range.
PxNoise == { RatInt(0 - 1), Rat(0 - 7, 10), RatInt(0), Rat(7, 20), Rat(7, 10), RatInt(1) }

PxArgs ==
  { [fn |-> "noise_color", color1 |-> a, color2 |-> b, noise_val |-> v] :
      a \in PxColors, b \in PxColors, v \in PxNoise }

InitPx ==
  /\ pc = "px_call"
  /\ fn_arg \in PxArgs
  /\ fn_ret = NoRet
  /\ call = NoCall
  /\ loc = NewFrame
  /\ image = NoImage
  /\ trace = NoTrace
  /\ ncalls = 0
  /\ last = NoOutcome
  /\ watch = NoOutcome

\* Lines 278-288 for one pixel.
ApplyNoiseColor ==
  /\ pc = "px_call"
  /\ fn_ret' = NoiseColor(fn_arg.color1, fn_arg.color2, fn_arg.noise_val)
  /\ pc' = "px_done"
  /\ UNCHANGED <<fn_arg, call, loc, image, trace, ncalls, last, watch>>

NextPx == ApplyNoiseColor

SpecPx == InitPx /\ [][NextPx]_vars

-----------------------------------------------------------------------------
(* The two chunk extractors, given the same requests                        *)

\* Seeds of length 1, 2 and 5 and requests of the lengths the generators
\* make (6, 2, 1) and of length 0.
ChunkArgs ==
  { [fn |-> "chunks", seed |-> seed, lengths |-> ls] :
      seed \in { <<"a">>, <<"0","f">>, <<"1","2","3","4","5">> },
      ls \in UNION { [1..n -> {0, 1, 2, 6}] : n \in 0..MaxRequests } }

InitChunk ==
  /\ pc = "ch_loop"
  /\ fn_arg \in ChunkArgs
  /\ fn_ret = [k |-> 0, circles_pos |-> StartPos, noise_pos |-> StartPos,
               circles_chunks |-> <<>>, noise_chunks |-> <<>>]
  /\ call = NoCall
  /\ loc = NewFrame
  /\ image = NoImage
  /\ trace = NoTrace
  /\ ncalls = 0
  /\ last = NoOutcome
  /\ watch = NoOutcome

Requested(ret, by_circles, by_noise) ==
  [k |-> ret.k + 1,
   circles_pos |-> by_circles.pos, noise_pos |-> by_noise.pos,
   circles_chunks |-> Append(ret.circles_chunks, by_circles.chunk),
   noise_chunks |-> Append(ret.noise_chunks, by_noise.chunk)]

\* The next request, made of get_seed_chunk (lines 101-111) and of get_chunk
\* (lines 227-240), each with its own current_seed_pos.
RequestChunk ==
  /\ pc = "ch_loop"
  /\ fn_ret.k < Len(fn_arg.lengths)
  /\ fn_ret' = Requested(fn_ret,
                 get_seed_chunk(fn_arg.seed, fn_ret.circles_pos, fn_arg.lengths[fn_ret.k + 1]),
                 get_chunk(fn_arg.seed, fn_ret.noise_pos, fn_arg.lengths[fn_ret.k + 1]))
  /\ UNCHANGED <<pc, fn_arg, call, loc, image, trace, ncalls, last, watch>>

NextChunk == RequestChunk

SpecChunk == InitChunk /\ [][NextChunk]_vars

-----------------------------------------------------------------------------
(* src/src/randomfusion/core.py: get_fingerprint_from_file                  *)

\* What str.strip() and str.split() take for whitespace.
Whitespace == {" ", "\t", "\n", "\r", "\f"}

RECURSIVE LStripWs(_)
LStripWs(s) == IF s # <<>> /\ s[1] \in Whitespace THEN LStripWs(Tail(s)) ELSE s

RECURSIVE RStripWs(_)
RStripWs(s) == IF s # <<>> /\ s[Len(s)] \in Whitespace
               THEN RStripWs(SubSeq(s, 1, Len(s) - 1)) ELSE s

\* s.strip()
PyStrip(s) == RStripWs(LStripWs(s))

\* The k-th smallest element of a set of positions.
NthOf(S, k) == CHOOSE i \in S : Cardinality({ j \in S : j <= i }) = k

SepPositions(s, sep) == { i \in 1..Len(s) : s[i] = sep }

\* The position of the k-th separator; 0 and Len(s) + 1 stand for the ends.
SepAt(s, sep, k) ==
  IF k = 0 THEN 0
  ELSE IF k > Cardinality(SepPositions(s, sep)) THEN Len(s) + 1
  ELSE NthOf(SepPositions(s, sep), k)

\* s.split(sep): the pieces between the separators, empty ones included.
SplitOn(s, sep) ==
  [ k \in 1..(Cardinality(SepPositions(s, sep)) + 1) |->
      SubSeq(s, SepAt(s, sep, k - 1) + 1, SepAt(s, sep, k) - 1) ]

PartStarts(s) ==
  { a \in 1..Len(s) : s[a] \notin Whitespace /\ (a = 1 \/ s[a - 1] \in Whitespace) }

PartEnd(s, a) ==
  CHOOSE b \in a..Len(s) :
    /\ \A k \in a..b : s[k] \notin Whitespace
    /\ b = Len(s) \/ s[b + 1] \in Whitespace

\* s.split(): the runs of non-whitespace characters.
SplitWs(s) ==
  [ k \in 1..Cardinality(PartStarts(s)) |->
      SubSeq(s, NthOf(PartStarts(s), k), PartEnd(s, NthOf(PartStarts(s), k))) ]

\* [a-zA-Z0-9+/=]
IsBase64Char(c) ==
  \/ c \in {"+", "/", "="}
  \/ /\ c \in DOMAIN OrdTable
     /\ Ord(c) \in (48..57) \cup (65..90) \cup (97..122)

\* [0-9a-f]
IsLowerHex(c) == c \in {HexLower[i] : i \in 1..16}

Sha256Prefix == <<"S","H","A","2","5","6",":">>
Md5Prefix == <<"M","D","5",":">>

\* SHA256:[a-zA-Z0-9+/=]{43}
MatchesSha256(part) ==
  /\ Len(part) = Len(Sha256Prefix) + 43
  /\ SubSeq(part, 1, Len(Sha256Prefix)) = Sha256Prefix
  /\ \A i \in (Len(Sha256Prefix) + 1)..Len(part) : IsBase64Char(part[i])

\* MD5:([0-9a-f]{2}:){15}[0-9a-f]{2}
MatchesMd5(part) ==
  /\ Len(part) = Len(Md5Prefix) + (15 * 3) + 2
  /\ SubSeq(part, 1, Len(Md5Prefix)) = Md5Prefix
  /\ \A i \in 1..((15 * 3) + 2) :
       IF i % 3 = 0 THEN part[Len(Md5Prefix) + i] = ":"
       ELSE IsLowerHex(part[Len(Md5Prefix) + i])

\* FINGERPRINT_REGEX.match(part), line 10.
FINGERPRINT_REGEX(part) == MatchesSha256(part) \/ MatchesMd5(part)

NoMatch == [found |-> FALSE, part |-> <<>>]

\* Lines 60-65: the first part of a line that matches.
RECURSIVE FirstMatchingPart(_)
FirstMatchingPart(parts) ==
  IF parts = <<>> THEN NoMatch
  ELSE IF FINGERPRINT_REGEX(parts[1]) THEN [found |-> TRUE, part |-> parts[1]]
  ELSE FirstMatchingPart(Tail(parts))

\* Lines 59-65: the lines in order.
RECURSIVE FirstMatchingLine(_)
FirstMatchingLine(output_lines) ==
  IF output_lines = <<>> THEN NoMatch
  ELSE IF FirstMatchingPart(SplitWs(output_lines[1])).found
       THEN FirstMatchingPart(SplitWs(output_lines[1]))
       ELSE FirstMatchingLine(Tail(output_lines))

key_file_path == "id_ed25519.pub"

Sha256Command == <<"ssh-keygen", "-l", "-f", key_file_path, "-E", "sha256">>
FallbackCommand == <<"ssh-keygen", "-l", "-f", key_file_path>>

CommandNotFound == "Error: 'ssh-keygen' command not found. Please ensure it's installed and in your PATH."
ErrorRunning == "Error running 'ssh-keygen -l -f"

ClickException(message, detail) ==
  [kind |-> "ClickException", message |-> message, detail |-> detail, value |-> <<>>]

\* An exception of subprocess.run that no handler of the function names.
Propagated(name) == [kind |-> name, message |-> "", detail |-> <<>>, value |-> <<>>]

ReturnValue(part) == [kind |-> "return", message |-> "", detail |-> <<>>, value |-> part]

\* Variant: only a non-zero exit leads to the second attempt.
FallbackCaught_ExitOnly == {"exit"}

\* Line 30: except (subprocess.CalledProcessError, FileNotFoundError)
FallbackCaught == {"exit", "notfound"}

\* Lines 44 and 76.
error_message(stderr) == IF stderr # <<>> THEN PyStrip(stderr) ELSE <<"U","n","k","n","o","w","n">>

\* The exception handlers of lines 39-47 and 71-79.
HandleRunFailure(outcome, stderr) ==
  IF outcome = "notfound" THEN ClickException(CommandNotFound, <<>>)
  ELSE IF outcome = "exit" THEN ClickException(ErrorRunning, error_message(stderr))
  ELSE Propagated("PermissionError")

FpSha256 ==
  Sha256Prefix \o [i \in 1..43 |-> <<"L","2","j","q","a","s","9","0","+","/","=","Z">>[((i - 1) % 12) + 1]]

FpMd5 == Md5Prefix \o [i \in 1..47 |-> IF i % 3 = 0 THEN ":" ELSE HexLower[(i % 16) + 1]]

\* Standard outputs of ssh-keygen -l: the usual line with either kind of
\* fingerprint, nothing, several lines with near misses before the first
\* match, near misses only (44 characters, upper-case digits, a leading
\* character), and one fingerprint on each of two lines.
KeygenOutputs ==
  LET Bits == <<"2","0","4","8">>
      Comment == <<"u","s","e","r","@","h","o","s","t">>
      KeyType == <<"(","R","S","A",")">>
      Sp == <<" ">>
      Nl == <<"\n">>
      FpShort == SubSeq(FpSha256, 1, Len(FpSha256) - 1)
      FpUpper == Md5Prefix \o [i \in 1..47 |-> IF i % 3 = 0 THEN ":" ELSE HexUpper[(i % 16) + 1]]
  IN
  { Bits \o Sp \o FpSha256 \o Sp \o Comment \o Sp \o KeyType \o Nl,
    Bits \o Sp \o FpMd5 \o Sp \o Comment \o Sp \o KeyType \o Nl,
    <<>>,
    Nl \o Sp \o Comment \o Sp \o KeyType \o Nl \o Nl
       \o Bits \o <<"\t">> \o FpShort \o Sp \o FpMd5 \o Sp \o FpSha256 \o Nl,
    FpSha256 \o <<"A">> \o Sp \o FpUpper \o Sp \o <<"(">> \o FpSha256 \o Nl,
    FpSha256 \o Nl \o FpMd5 \o Nl }

\* The key file and what the two invocations of ssh-keygen would do:
\* complete with exit status 0, raise CalledProcessError (check=True), raise
\* FileNotFoundError, or raise another OSError such as PermissionError.
KeyArgs ==
  { [fn |-> "get_fingerprint_from_file", file |-> f, first |-> a, second |-> b,
     stdout |-> out, stderr |-> err] :
      f \in { [exists |-> TRUE, isfile |-> TRUE], [exists |-> TRUE, isfile |-> FALSE],
              [exists |-> FALSE, isfile |-> FALSE] },
      a \in {"ok", "exit", "notfound", "oserror"},
      b \in {"ok", "exit", "notfound", "oserror"},
      out \in KeygenOutputs,
      err \in { <<>>, <<" ","b","a","d"," ","k","e","y","\n">> } }

InitKey ==
  /\ pc = "kf_call"
  /\ fn_arg \in KeyArgs
  /\ fn_ret = NoRet
  /\ call = NoCall
  /\ loc = NewFrame
  /\ image = NoImage
  /\ trace = NoTrace
  /\ ncalls = 0
  /\ last = NoOutcome
  /\ watch = NoOutcome

KeyUnchanged == UNCHANGED <<fn_arg, call, loc, image, ncalls, last, watch>>

\* Lines 16-19.
CheckKeyFile ==
  /\ pc = "kf_call"
  /\ IF ~fn_arg.file.exists
     THEN pc' = "kf_done" /\ fn_ret' = ClickException("Error: Key file not found at", <<>>)
     ELSE IF ~fn_arg.file.isfile
     THEN pc' = "kf_done" /\ fn_ret' = ClickException("is not a file.", <<>>)
     ELSE pc' = "kf_sha256" /\ fn_ret' = fn_ret
  /\ UNCHANGED trace
  /\ KeyUnchanged

\* Lines 25-33 and, for what line 30 does not catch, 71-79.
RunWithSha256 ==
  /\ pc = "kf_sha256"
  /\ IF fn_arg.first = "ok"
     THEN /\ pc' = "kf_parse"
          /\ fn_ret' = fn_ret
          /\ trace' = [trace EXCEPT !.runs = Append(@, Sha256Command)]
     ELSE IF fn_arg.first \in FallbackCaught
     THEN /\ pc' = "kf_fallback"
          /\ fn_ret' = fn_ret
          /\ trace' = [trace EXCEPT !.runs = Append(@, Sha256Command),
                                    !.echoed = Append(@, "Warning: Could not use 'ssh-keygen -E sha256'. Trying without -E option.")]
     ELSE /\ pc' = "kf_done"
          /\ fn_ret' = HandleRunFailure(fn_arg.first, fn_arg.stderr)
          /\ trace' = [trace EXCEPT !.runs = Append(@, Sha256Command)]
  /\ KeyUnchanged

\* Lines 34-47.
RunFallback ==
  /\ pc = "kf_fallback"
  /\ trace' = [trace EXCEPT !.runs = Append(@, FallbackCommand)]
  /\ IF fn_arg.second = "ok"
     THEN pc' = "kf_parse" /\ fn_ret' = fn_ret
     ELSE pc' = "kf_done" /\ fn_ret' = HandleRunFailure(fn_arg.second, fn_arg.stderr)
  /\ KeyUnchanged

ParsedOrError(output_lines, hit) ==
  IF output_lines = <<>> THEN ClickException("Error: 'ssh-keygen' produced no output for", <<>>)
  ELSE IF hit.found THEN ReturnValue(hit.part)
  ELSE ClickException("Error: Could not parse fingerprint from 'ssh-keygen' output for", fn_arg.stdout)

\* Lines 54-69.
ParseOutput ==
  /\ pc = "kf_parse"
  /\ fn_ret' = ParsedOrError(SplitOn(PyStrip(fn_arg.stdout), "\n"),
                             FirstMatchingLine(SplitOn(PyStrip(fn_arg.stdout), "\n")))
  /\ pc' = "kf_done"
  /\ UNCHANGED trace
  /\ KeyUnchanged

NextKey == CheckKeyFile \/ RunWithSha256 \/ RunFallback \/ ParseOutput

SpecKey == InitKey /\ [][NextKey]_vars

-----------------------------------------------------------------------------
(* Properties                                                               *)

CodeGenerators == {"color_blocks", "circles", "noisescape"}

\* An invocation has just returned a raster and an earlier outcome is kept.
Comparable ==
  /\ pc = "idle"
  /\ watch # NoOutcome
  /\ last # NoOutcome
  /\ last.error = ""

\* C1: two invocations of a generator with identical inputs return identical
\* rasters, whatever ran before or between them.
C1_Determinism ==
  (Comparable /\ last.inp.gen \in CodeGenerators /\ last.inp = watch.inp)
    => last.image = watch.image

\* An input was run, then a different invocation, then the same input again.
C1_Witness ==
  /\ Comparable
  /\ last.inp.gen \in CodeGenerators
  /\ last.inp = watch.inp
  /\ watch.others = 1
  /\ ncalls = 3

\* C2: with an empty seed every generator fails with the empty-seed error
\* before a raster is created, a chunk is requested or a pixel is written.
C2_EmptySeedFails ==
  (call.gen # "none" /\ call.seed = <<>>)
    => /\ pc = "idle"
       /\ last.error = EmptySeedError
       /\ last.image = NoImage
       /\ image = NoImage
       /\ trace = NoTrace

C2_Witness ==
  /\ call.gen = "noisescape"
  /\ call.seed = <<>>
  /\ last.error = EmptySeedError

\* C3: generate_color_blocks with a non-empty seed and grid_size <= 0 fails
\* with the grid-size error before a raster is created, a division by
\* grid_size is made or the string is extended.
C3_GridSizeFails ==
  (call.gen = "color_blocks" /\ call.seed # <<>> /\ call.grid <= 0)
    => /\ pc = "idle"
       /\ last.error = GridSizeError
       /\ last.image = NoImage
       /\ image = NoImage
       /\ trace.rasters = 0
       /\ trace.divisions = 0
       /\ trace.extensions = 0

C3_Witness ==
  /\ call.gen = "color_blocks"
  /\ call.seed # <<>>
  /\ call.grid = 0
  /\ last.error = GridSizeError

RgbDone == pc = "fn_done" /\ fn_arg.fn = "hex_to_rgb"
MapDone == pc = "fn_done" /\ fn_arg.fn = "_map_hex_to_range"

\* The chunk without one leading '#'.
StripOne(c) == IF c # <<>> /\ c[1] = "#" THEN Tail(c) ELSE c

AllHex(c) == c # <<>> /\ \A k \in 1..Len(c) : IsHexDigit(c[k])

ByteOf(c, k) == 16 * HexVal(c[k]) + HexVal(c[k + 1])

\* The first six digits of the digest of c, as three bytes.
DigestColor(c) == DigestTriple(sha256_hexdigest(c))

\* C4: a chunk that is six hex digits once a leading '#' is removed gives
\* the bytes of digits 0-1, 2-3 and 4-5.
C4_SixHexDigits ==
  (RgbDone /\ Len(StripOne(fn_arg.chunk)) = 6 /\ AllHex(StripOne(fn_arg.chunk)))
    => LET c == StripOne(fn_arg.chunk)
       IN  fn_ret = <<ByteOf(c, 1), ByteOf(c, 3), ByteOf(c, 5)>>

C4_Witness ==
  /\ RgbDone
  /\ fn_arg.chunk = <<"#","1","A","f","f","1","A">>
  /\ fn_ret = <<26, 255, 26>>

\* C5 as stated: a chunk of the wrong length, or one that does not parse,
\* gives the digest colour of the chunk exactly as it was passed.
C5_FallbackOfRawChunk ==
  (RgbDone /\ (Len(StripOne(fn_arg.chunk)) # 6
               \/ ~ByteTriple(StripOne(fn_arg.chunk)).ok))
    => fn_ret = DigestColor(fn_arg.chunk)

\* C5 amended: a chunk whose length is not 6 once its leading '#' characters
\* are stripped gives the digest colour of the stripped chunk; a 6-character
\* chunk that does not parse gives the digest colour of the fixed string
\* "default_color_fallback", whatever the chunk.
C5_FallbackAsCoded ==
  RgbDone =>
    LET c == StripLeft(fn_arg.chunk, "#")
    IN  /\ Len(c) # 6 => fn_ret = DigestColor(c)
        /\ (Len(c) = 6 /\ ~ByteTriple(c).ok)
             => fn_ret = DigestColor(default_color_fallback)

C5_Witness ==
  /\ RgbDone
  /\ fn_arg.chunk # <<>>
  /\ fn_arg.chunk[1] = "#"
  /\ Len(StripLeft(fn_arg.chunk, "#")) = 6
  /\ ~ByteTriple(StripLeft(fn_arg.chunk, "#")).ok
  /\ fn_ret = DigestColor(default_color_fallback)

\* C6: every channel hex_to_rgb returns is an integer in 0..255, for every
\* input string.
C6_ChannelsAreBytes ==
  RgbDone => \A k \in 1..3 : fn_ret[k] \in 0..255

\* Same generator, same size and style parameters, different seeds.
SameButSeed(a, b) ==
  /\ a.gen = b.gen
  /\ a.seed # b.seed
  /\ [a EXCEPT !.seed = <<>>] = [b EXCEPT !.seed = <<>>]

SeedChars(seed, from, n) == [j \in 1..n |-> seed[((from + j - 1) % Len(seed)) + 1]]

InCircleLoop == pc = "cc_loop" /\ loc.i >= 1

\* C8 as stated: whatever the seed and the defaults passed, the drawing loop
\* runs with a circle count in 5..30 and a base stroke width in 1..8.
C8_CircleParametersInRange ==
  InCircleLoop => loc.num_circles \in 5..30 /\ loc.base_stroke_width \in 1..8

\* C8 amended: the count is in 5..30 when int(chunk, 16) accepts the
\* characters at positions 6-7, and the stroke width is in 1..8 when it
\* accepts those at positions 8-9, whatever defaults are passed; when it
\* rejects them the default passed by the caller is used as it is.
C8_DerivedOrDefault ==
  InCircleLoop =>
    LET num_ok == PyIntHex(SeedChars(call.seed, 6, 2)).ok
        stroke_ok == PyIntHex(SeedChars(call.seed, 8, 2)).ok
    IN  /\ num_ok => loc.num_circles \in 5..30
        /\ ~num_ok => loc.num_circles = call.dnc
        /\ stroke_ok => loc.base_stroke_width \in 1..8
        /\ ~stroke_ok => loc.base_stroke_width = call.dbs

\* A chunk int() reads as a negative number, with defaults outside the ranges.
C8_Witness ==
  /\ InCircleLoop
  /\ PyIntHex(SeedChars(call.seed, 8, 2)).ok
  /\ PyIntHex(SeedChars(call.seed, 8, 2)).v < 0
  /\ call.dbs = 9
  /\ loc.base_stroke_width \in 1..8
  /\ loc.num_circles \in 5..30

InRange(r, lo, hi) == RatLe(lo, r) /\ RatLe(r, hi)

\* C9: for every non-empty seed the derived scale is in [30, 120], the
\* octaves in 2..6, the persistence in [0.3, 0.7] and the lacunarity in
\* [1.8, 3.5].
C9_NoiseParametersInRange ==
  pc = "ns_loop" =>
    /\ InRange(loc.scale, RatInt(30), RatInt(120))
    /\ loc.octaves \in 2..6
    /\ InRange(loc.persistence, Rat(3, 10), Rat(7, 10))
    /\ InRange(loc.lacunarity, Rat(18, 10), Rat(35, 10))

\* min + raw / (16^n - 1) * (max - min) for a chunk of n >= 1 hex digits;
\* min for an empty chunk and for one int() rejects.
Interpolated(c, min_val, max_val) ==
  IF AllHex(c)
  THEN RatAdd(min_val, RatMul(Rat(DigitsVal(c, 0), (16 ^ Len(c)) - 1),
                              RatSub(max_val, min_val)))
  ELSE min_val

\* C10: a chunk of hex digits maps to min + raw / (16^n - 1) * (max - min),
\* all zeros to min, all 'f' to max, monotonically in raw; an empty chunk and
\* one that does not parse map to min; with is_int the result is the nearest
\* integer to that value.
C10_LinearMap ==
  (MapDone /\ (AllHex(fn_arg.chunk) \/ fn_arg.chunk = <<>>
               \/ ~PyIntHex(fn_arg.chunk).ok))
    => LET c == fn_arg.chunk
           v == Interpolated(c, fn_arg.min_val, fn_arg.max_val)
           off == RatSub(fn_ret, v)
       IN  /\ ~fn_arg.is_int => fn_ret = v
           /\ fn_arg.is_int => /\ fn_ret.d = 1
                               /\ 2 * Abs(off.n) <= off.d
           /\ (~fn_arg.is_int /\ AllHex(c) /\ \A k \in 1..Len(c) : c[k] = "0")
                => fn_ret = fn_arg.min_val
           /\ (~fn_arg.is_int /\ AllHex(c) /\ \A k \in 1..Len(c) : c[k] \in {"f", "F"})
                => fn_ret = fn_arg.max_val
           /\ AllHex(c) =>
                \A c2 \in MapChunks :
                  (AllHex(c2) /\ Len(c2) = Len(c) /\ DigitsVal(c2, 0) <= DigitsVal(c, 0))
                    => RatLe(_map_hex_to_range(c2, fn_arg.min_val, fn_arg.max_val,
                                               fn_arg.is_int), fn_ret)

\* An integer mapping of a hex chunk strictly between the ends of its range.
C10_Witness ==
  /\ MapDone
  /\ fn_arg.chunk = <<"7">>
  /\ fn_arg.is_int
  /\ fn_arg.min_val = RatInt(2)
  /\ fn_ret = RatInt(4)

\* C11: a circle count or base stroke width the caller passes in place of
\* the signature's default is the value the drawing loop uses, whatever the
\* seed.
C11_OverrideUsed ==
  InCircleLoop =>
    /\ call.dnc # SignatureNumCircles => loc.num_circles = call.dnc
    /\ call.dbs # SignatureBaseStroke => loc.base_stroke_width = call.dbs

\* A block of the double loop is about to be coloured.
AtBlock == pc = "cb_draw" /\ loc.row < call.grid

\* C12: at every block the colour data string still holds six characters
\* from color_idx on, so no block takes the hash-of-(seed, row, col) colour.
C12_NeverExhausted ==
  AtBlock => loc.color_idx + 6 <= Len(loc.color_data_string)

\* generate_color_blocks has just returned its raster; its locals are as it
\* left them.
BlocksReturned ==
  pc = "idle" /\ call.gen = "color_blocks" /\ last # NoOutcome /\ last.error = ""

\* C13: every pixel right of the last column of blocks or below the last
\* row of blocks has the background colour in the returned raster.
C13_RemainderIsBackground ==
  BlocksReturned =>
    \A p \in DOMAIN last.image.px :
      (p[1] >= call.grid * loc.block_width \/ p[2] >= call.grid * loc.block_height)
        => last.image.px[p] = loc.background_color

PxDone == pc = "px_done"

\* (v + 0.7) / 1.4 clamped into [0, 1].
Normalized(v) ==
  IF RatLe(v, Rat(0 - 7, 10)) THEN RatInt(0)
  ELSE IF RatLe(Rat(7, 10), v) THEN RatInt(1)
  ELSE RatDiv(RatAdd(v, Rat(7, 10)), Rat(14, 10))

\* A_c * (1 - t) + B_c * t
Blend(a, b, t) == RatAdd(RatMul(RatInt(a), RatSub(RatInt(1), t)), RatMul(RatInt(b), t))

\* m, clamped to [0, 255], is the channel value of an integer n with P(n):
\* the clamp hides how far below 0 or above 255 n lies.
NearestClamped(x, m) ==
  /\ m \in 0..255
  /\ m > 0 => RatLe(RatSub(RatInt(2 * m), RatInt(1)), RatMul(RatInt(2), x))
  /\ m < 255 => RatLe(RatMul(RatInt(2), x), RatAdd(RatInt(2 * m), RatInt(1)))

TruncatedClamped(x, m) ==
  /\ m \in 0..255
  /\ m > 0 => RatLe(RatInt(m), x)
  /\ m < 255 => RatLt(x, RatInt(m + 1))

\* C14 as stated: each channel is A_c*(1 - t) + B_c*t rounded to the nearest
\* integer and clamped to [0, 255]; t = 0 gives colour A, t = 1 colour B.
C14_RoundedToNearest ==
  PxDone =>
    LET t == Normalized(fn_arg.noise_val)
    IN  /\ \A k \in 1..3 :
             NearestClamped(Blend(fn_arg.color1[k], fn_arg.color2[k], t), fn_ret[k])
        /\ t = RatInt(0) => fn_ret = fn_arg.color1
        /\ t = RatInt(1) => fn_ret = fn_arg.color2

\* C14 amended: each channel is A_c*(1 - t) + B_c*t with its fraction
\* dropped and clamped to [0, 255]; t = 0 gives colour A and t = 1 colour B,
\* each channel clamped to [0, 255].
C14_TruncatedAndClamped ==
  PxDone =>
    LET t == Normalized(fn_arg.noise_val)
    IN  /\ \A k \in 1..3 :
             TruncatedClamped(Blend(fn_arg.color1[k], fn_arg.color2[k], t), fn_ret[k])
        /\ t = RatInt(0) => \A k \in 1..3 : fn_ret[k] = Clamp255(fn_arg.color1[k])
        /\ t = RatInt(1) => \A k \in 1..3 : fn_ret[k] = Clamp255(fn_arg.color2[k])

\* A channel whose value 191.25 is nearer to 191 and another whose value
\* 0.75 is nearer to 1.
C14_Witness ==
  /\ PxDone
  /\ fn_arg.color1 = <<0, 0, 0>>
  /\ fn_arg.color2 = <<0, 255, 1>>
  /\ fn_arg.noise_val = Rat(7, 20)
  /\ fn_ret = <<0, 191, 0>>

MandelbrotReturned ==
  pc = "idle" /\ call.gen = "mandelbrot" /\ last # NoOutcome /\ last.error = ""

\* z after n iterations of z <- z^2 + c from z = 0.
RECURSIVE Orbit(_, _)
Orbit(c, n) == IF n = 0 THEN <<0, 0>> ELSE ZSquaredPlusC(Orbit(c, n - 1), c)

Beyond2(z) == (z[1] * z[1]) + (z[2] * z[2]) > 4

\* The iteration at which the orbit of c first has |z| > 2, 0 if it has
\* not within the cap.
EscapeIteration(c, cap) ==
  IF \E n \in 1..cap : Beyond2(Orbit(c, n))
  THEN CHOOSE n \in 1..cap :
         Beyond2(Orbit(c, n)) /\ \A m \in 1..(n - 1) : ~Beyond2(Orbit(c, m))
  ELSE 0

PointOf(p) == PixelToComplex(loc, call.w, call.h, p[1], p[2])

\* C15: generate_mandelbrot with a non-empty seed returns a width x height
\* raster; a pixel whose orbit reaches the cap without |z| > 2 is black, so
\* a pixel at c = 0 is; two escaping pixels with the same escape iteration
\* have the same colour.
C15_InsideBlackEscapeByCount ==
  MandelbrotReturned =>
    /\ last.image.w = call.w
    /\ last.image.h = call.h
    /\ DOMAIN last.image.px = (0..(call.w - 1)) \X (0..(call.h - 1))
    /\ \A p \in DOMAIN last.image.px :
         /\ EscapeIteration(PointOf(p), loc.max_iterations) = 0
              => last.image.px[p] = <<0, 0, 0>>
         /\ PointOf(p) = <<0, 0>> => last.image.px[p] = <<0, 0, 0>>
         /\ \A q \in DOMAIN last.image.px :
              (/\ EscapeIteration(PointOf(p), loc.max_iterations) # 0
               /\ EscapeIteration(PointOf(p), loc.max_iterations)
                    = EscapeIteration(PointOf(q), loc.max_iterations))
                => last.image.px[p] = last.image.px[q]

\* A view with the point c = 0 (inside), c = 1 + i (escapes at iteration 2)
\* and c = 1 and c = -1 + i (both escape at iteration 3).
C15_Witness ==
  /\ MandelbrotReturned
  /\ call.seed = MandelbrotView
  /\ \E p \in DOMAIN last.image.px :
       PointOf(p) = <<0, 0>> /\ last.image.px[p] = <<0, 0, 0>>
  /\ \E p, q \in DOMAIN last.image.px :
       /\ p # q
       /\ EscapeIteration(PointOf(p), loc.max_iterations) = 3
       /\ EscapeIteration(PointOf(q), loc.max_iterations) = 3
       /\ last.image.px[p] = <<0, 255, 0>>
  /\ \E p \in DOMAIN last.image.px :
       /\ EscapeIteration(PointOf(p), loc.max_iterations) = 2
       /\ last.image.px[p] = <<255, 0, 0>>

KeyDone == pc = "kf_done"

RegularKeyFile == fn_arg.file.exists /\ fn_arg.file.isfile

FirstFailed == fn_arg.first \in {"exit", "notfound"}

\* The invocation that succeeded, if one did.
KeygenSucceeded ==
  \/ fn_arg.first = "ok"
  \/ FirstFailed /\ fn_arg.second = "ok"

\* The n characters of s from position a are a whole token: no whitespace
\* inside, whitespace or an end of s on either side.
IsTokenAt(s, a, n) ==
  /\ a + n - 1 <= Len(s)
  /\ \A k \in a..(a + n - 1) : s[k] \notin Whitespace
  /\ a = 1 \/ s[a - 1] \in Whitespace
  /\ a + n - 1 = Len(s) \/ s[a + n] \in Whitespace

\* The only lengths a fingerprint can have.
FingerprintLengths == { Len(Sha256Prefix) + 43, Len(Md5Prefix) + 47 }

FingerprintAt(s, a) ==
  \E n \in FingerprintLengths :
    IsTokenAt(s, a, n) /\ FINGERPRINT_REGEX(SubSeq(s, a, a + n - 1))

HasFingerprint(s) == \E a \in 1..Len(s) : FingerprintAt(s, a)

\* v is the first token of s that is a fingerprint.
IsFirstFingerprint(s, v) ==
  \E a \in 1..Len(s) :
    /\ FingerprintAt(s, a)
    /\ IsTokenAt(s, a, Len(v))
    /\ SubSeq(s, a, a + Len(v) - 1) = v
    /\ \A b \in 1..(a - 1) : ~FingerprintAt(s, b)

\* C16: on an existing regular file ssh-keygen is run first with -E sha256,
\* a second time without -E exactly when the first run failed (non-zero
\* exit or command not found), and never a third time; the first token of
\* the successful run's output that matches the fingerprint pattern is
\* returned; when the second run fails too a ClickException is raised,
\* 'command not found' or 'Error running', and nothing is returned.
C16_AtMostTwoRuns ==
  RegularKeyFile =>
    /\ Len(trace.runs) <= 2
    /\ Len(trace.runs) >= 1 => trace.runs[1] = Sha256Command
    /\ Len(trace.runs) = 2 => FirstFailed /\ trace.runs[2] = FallbackCommand
    /\ KeyDone =>
         /\ Len(trace.runs) >= 1
         /\ FirstFailed => Len(trace.runs) = 2
         /\ (KeygenSucceeded /\ HasFingerprint(fn_arg.stdout))
              => /\ fn_ret.kind = "return"
                 /\ IsFirstFingerprint(fn_arg.stdout, fn_ret.value)
         /\ (FirstFailed /\ fn_arg.second = "notfound")
              => fn_ret.kind = "ClickException" /\ fn_ret.message = CommandNotFound
         /\ (FirstFailed /\ fn_arg.second = "exit")
              => fn_ret.kind = "ClickException" /\ fn_ret.message = ErrorRunning
         /\ (FirstFailed /\ fn_arg.second # "ok") => fn_ret.value = <<>>

\* The command was missing at the first run and present at the second, whose
\* output has near misses before the MD5 fingerprint and a SHA256 one after.
C16_Witness ==
  /\ KeyDone
  /\ RegularKeyFile
  /\ fn_arg.first = "notfound"
  /\ fn_arg.second = "ok"
  /\ trace.runs = <<Sha256Command, FallbackCommand>>
  /\ Len(fn_arg.stdout) > 100
  /\ fn_ret = ReturnValue(FpMd5)

\* l1 + ... + lk
RECURSIVE SumOfLengths(_, _)
SumOfLengths(ls, k) == IF k = 0 THEN 0 ELSE SumOfLengths(ls, k - 1) + ls[k]

\* C17: after requests of lengths l1..lk the cursor of either extractor is
\* l1 + ... + lk, not reduced modulo the seed length; the j-th character of
\* the m-th chunk is seed[(l1 + ... + l(m-1) + j) mod L]; the two extractors
\* return the same chunks.
C17_CursorIsSumOfLengths ==
  pc = "ch_loop" =>
    /\ fn_ret.circles_pos = SumOfLengths(fn_arg.lengths, fn_ret.k)
    /\ fn_ret.noise_pos = SumOfLengths(fn_arg.lengths, fn_ret.k)
    /\ Len(fn_ret.circles_chunks) = fn_ret.k
    /\ fn_ret.noise_chunks = fn_ret.circles_chunks
    /\ \A m \in 1..fn_ret.k :
         fn_ret.circles_chunks[m] =
           SeedChars(fn_arg.seed, SumOfLengths(fn_arg.lengths, m - 1), fn_arg.lengths[m])

\* Three requests on a seed of length 2: the cursor is past the end of the
\* seed and the last chunk is read after two wrap-arounds.
C17_Witness ==
  /\ pc = "ch_loop"
  /\ fn_arg.seed = <<"0","f">>
  /\ fn_arg.lengths = <<2, 1, 2>>
  /\ fn_ret.k = 3
  /\ fn_ret.noise_pos = 5
  /\ fn_ret.circles_pos = 5
  /\ fn_ret.noise_chunks = << <<"0","f">>, <<"0">>, <<"f","0">> >>

\* The block that pixel p belongs to, numbered row-major.
BlockOf(p) ==
  (PyFloorDiv(p[2], loc.block_height) * call.grid) + PyFloorDiv(p[1], loc.block_width)

\* C18: in the raster generate_color_blocks returns, with block width and
\* height at least 1, every pixel inside the grid has the colour of its own
\* block, and block k has the colour hex_to_rgb gives for characters
\* [6 + 6k, 12 + 6k) of the colour data string.
C18_BlockColourFromString ==
  (BlocksReturned /\ loc.block_width >= 1 /\ loc.block_height >= 1) =>
    \A p \in DOMAIN last.image.px :
      (p[1] < call.grid * loc.block_width /\ p[2] < call.grid * loc.block_height)
        => last.image.px[p] =
             hex_to_rgb(Slice(loc.color_data_string, 6 + (6 * BlockOf(p)), 12 + (6 * BlockOf(p))))

CirclesCalled == pc = "idle" /\ pc' = "cc_loop"

CircleStep == pc = "cc_loop" /\ pc' = "cc_loop" /\ loc'.i = loc.i - 1

CirclesReturn == pc = "cc_loop" /\ pc' = "idle"

\* The circle being processed, counted from the largest: j = 0, 1, ...
CircleNo == loc.num_circles - loc.i

\* 0.95 * min(width, height) / 2 * (i / count)
RadiusOf(i) == Rat(19 * Min(call.w, call.h) * i, 40 * loc.num_circles)

LastOp(img) == img.ops[Len(img.ops)]

\* C19: the circle generator consumes one cursor in a fixed order: positions
\* 0-5 for the background, 6-7 for the count, 8-9 for the base stroke width,
\* then 10+7j..15+7j for the colour and 16+7j for the jitter of the j-th
\* processed circle, whose radius shrinks with j; a circle consumes its 7
\* characters whether it is drawn or not, and the cursor is 10 + 7*count at
\* the return.
C19_CursorOrder ==
  [][ /\ CirclesCalled =>
           /\ trace'.chunks = << [pos |-> 0, len |-> 6], [pos |-> 6, len |-> 2],
                                 [pos |-> 8, len |-> 2] >>
           /\ loc'.background_color = hex_to_rgb(SeedChars(call'.seed, 0, 6))
           /\ loc'.num_circles = DeriveNumCircles(SeedChars(call'.seed, 6, 2), call'.dnc)
           /\ loc'.base_stroke_width = DeriveBaseStroke(SeedChars(call'.seed, 8, 2), call'.dbs)
           /\ loc'.current_seed_pos = 10
      /\ CircleStep =>
           /\ loc.current_seed_pos = 10 + (7 * CircleNo)
           /\ loc'.current_seed_pos = loc.current_seed_pos + 7
           /\ trace'.chunks = trace.chunks \o << [pos |-> 10 + (7 * CircleNo), len |-> 6],
                                                 [pos |-> 16 + (7 * CircleNo), len |-> 1] >>
           /\ image' # image =>
                /\ image'.ops = Append(image.ops, LastOp(image'))
                /\ LastOp(image').outline
                     = hex_to_rgb(SeedChars(call.seed, 10 + (7 * CircleNo), 6))
                /\ LastOp(image').bbox[3]
                     = RatAdd(RatInt(call.w \div 2), RadiusOf(loc.num_circles - CircleNo))
                /\ image.ops # <<>> => RatLt(LastOp(image').bbox[3], LastOp(image).bbox[3])
      /\ CirclesReturn => loc.current_seed_pos = 10 + (7 * loc.num_circles)
    ]_vars

\* The largest circle was skipped and the next one drawn, in the colour of
\* positions 17-22; three circles were drawn when the generator returned.
C19_Witness ==
  /\ pc = "idle"
  /\ call.gen = "circles"
  /\ call.seed = SkipFirst
  /\ last.error = ""
  /\ loc.num_circles = 5
  /\ loc.current_seed_pos = 45
  /\ Len(last.image.ops) = 2
  /\ last.image.ops[1].outline = <<0, 255, 0>>

\* The jitter of the circle being processed, from the character at 16 + 7j.
JitterOf(c) == IF IsHexDigit(c) THEN HexVal(c) % 4 ELSE 0

StrokeOf(jitter) ==
  IF loc.base_stroke_width + jitter - ((loc.num_circles - loc.i) \div 3) >= 1
  THEN loc.base_stroke_width + jitter - ((loc.num_circles - loc.i) \div 3)
  ELSE 1

\* C20: for every circle i from count down to 1 the stroke width is
\* max(1, base + jitter - (count - i) div 3) with jitter in 0..3, so at least
\* 1 and at most base + 3; the circle is drawn exactly when its radius
\* 0.95 * min(width, height) / 2 * (i / count) is greater than half the
\* stroke width; a skipped circle raises nothing and leaves the raster as it
\* was.
C20_StrokeAndRadiusTest ==
  [][ (pc = "cc_loop" /\ loc.i >= 1) =>
        /\ CircleStep
        /\ last' = last
        /\ JitterOf(SeedChars(call.seed, 16 + (7 * CircleNo), 1)[1]) \in 0..3
        /\ StrokeOf(JitterOf(SeedChars(call.seed, 16 + (7 * CircleNo), 1)[1])) >= 1
        /\ StrokeOf(JitterOf(SeedChars(call.seed, 16 + (7 * CircleNo), 1)[1]))
             <= loc.base_stroke_width + 3
        /\ (image' # image)
             <=> RatLt(Rat(StrokeOf(JitterOf(SeedChars(call.seed, 16 + (7 * CircleNo), 1)[1])), 2),
                       RadiusOf(loc.i))
        /\ image' # image =>
             /\ image'.px = image.px
             /\ image'.ops = Append(image.ops, LastOp(image'))
             /\ LastOp(image').width
                  = StrokeOf(JitterOf(SeedChars(call.seed, 16 + (7 * CircleNo), 1)[1]))
    ]_vars

\* The largest circle, of stroke width 2 and radius 0.95, was skipped and
\* the next one, of stroke width 1 and radius 0.76, was drawn.
C20_Witness ==
  /\ pc = "cc_loop"
  /\ call.seed = SkipFirst
  /\ loc.i = 3
  /\ loc.base_stroke_width = 1
  /\ Len(image.ops) = 1
  /\ image.ops[1].width = 1
  /\ trace.writes = 1

NoiseCalled == pc = "idle" /\ pc' = "ns_loop"

NoisePixelStep == pc = "ns_loop" /\ pc' = "ns_loop"

NoiseReturn == pc = "ns_loop" /\ pc' = "idle"

\* The cursor, the six parameters and the noise base.
NoiseParameters(frame) ==
  << frame.current_seed_pos, frame.scale, frame.octaves, frame.persistence,
     frame.lacunarity, frame.color1, frame.color2, frame.noise_base_seed >>

\* C21: generate_noisescape derives scale from positions 0-1, octaves from
\* 2, persistence from 3-4, lacunarity from 5-6, colour A from 7-12 and
\* colour B from 13-18 of one cyclic cursor, which is 19 when the pixel loop
\* starts; the noise base is in 0..255 and takes no position; the loop
\* changes none of them and writes each of the width * height pixels once.
C21_ParametersBeforeLoop ==
  [][ /\ NoiseCalled =>
           /\ trace'.chunks = << [pos |-> 0, len |-> 2], [pos |-> 2, len |-> 1],
                                 [pos |-> 3, len |-> 2], [pos |-> 5, len |-> 2],
                                 [pos |-> 7, len |-> 6], [pos |-> 13, len |-> 6] >>
           /\ loc'.scale
                = _map_hex_to_range(SeedChars(call'.seed, 0, 2), RatInt(30), RatInt(120), FALSE)
           /\ loc'.octaves
                = _map_hex_to_range(SeedChars(call'.seed, 2, 1), RatInt(2), RatInt(6), TRUE).n
           /\ loc'.persistence
                = _map_hex_to_range(SeedChars(call'.seed, 3, 2), Rat(3, 10), Rat(7, 10), FALSE)
           /\ loc'.lacunarity
                = _map_hex_to_range(SeedChars(call'.seed, 5, 2), Rat(18, 10), Rat(35, 10), FALSE)
           /\ loc'.color1 = hex_to_rgb(SeedChars(call'.seed, 7, 6))
           /\ loc'.color2 = hex_to_rgb(SeedChars(call'.seed, 13, 6))
           /\ loc'.noise_base_seed \in 0..255
           /\ loc'.current_seed_pos = 19
           /\ trace'.writes = 0
      /\ NoisePixelStep =>
           /\ NoiseParameters(loc') = NoiseParameters(loc)
           /\ trace'.chunks = trace.chunks
           /\ loc.x_coord \in 0..(call.w - 1) /\ loc.y_coord \in 0..(call.h - 1)
           /\ trace.writes = (loc.y_coord * call.w) + loc.x_coord
           /\ trace'.writes = trace.writes + 1
           /\ \A p \in DOMAIN image.px :
                p # <<loc.x_coord, loc.y_coord>> => image'.px[p] = image.px[p]
      /\ NoiseReturn =>
           /\ trace.writes = call.w * call.h
           /\ loc.current_seed_pos = 19
           /\ last'.image = image
    ]_vars

\* The loop has written the last pixel of a seed of five characters, read
\* almost four times over.
C21_Witness ==
  /\ pc = "ns_loop"
  /\ call.seed = <<"f","f","0","0","8">>
  /\ loc.current_seed_pos = 19
  /\ loc.color1 = <<0, 143, 240>>
  /\ trace.writes = call.w * call.h
  /\ loc.y_coord = call.h

BlockStep == pc = "cb_draw" /\ pc' = "cb_draw" /\ loc.row < call.grid

\* The block being painted, numbered row-major.
BlockNo == (loc.row * call.grid) + loc.col

\* The block is coloured from the hash of seed, row and col.
TakesFallback == loc'.color_idx = loc.color_idx

\* C22: in generate_color_blocks with a non-empty seed and grid_size >= 1
\* only the last block in row-major order can take the hash fallback: every
\* earlier block k reads characters [6 + 6k, 12 + 6k) of the colour data
\* string and moves color_idx on by 6, so no two blocks take the fallback.
C22_OnlyLastBlockFallsBack ==
  [][ BlockStep =>
        /\ loc.color_idx = 6 + (6 * BlockNo)
        /\ TakesFallback \/ loc'.color_idx = loc.color_idx + 6
        /\ TakesFallback => (loc.row = call.grid - 1 /\ loc.col = call.grid - 1)
        /\ BlockNo < (call.grid * call.grid) - 1 =>
             /\ 12 + (6 * BlockNo) <= Len(loc.color_data_string)
             /\ loc'.color_idx = loc.color_idx + 6
             /\ trace'.fills
                  = Append(trace.fills,
                           hex_to_rgb(SubSeq(loc.color_data_string,
                                             7 + (6 * BlockNo), 12 + (6 * BlockNo))))
    ]_vars

\* Three blocks were coloured from the string and the fourth, the last,
\* from the hash.
C22_Witness ==
  /\ pc = "cb_draw"
  /\ call.seed = FourColours
  /\ call.grid = 2
  /\ loc.row = 2
  /\ loc.color_idx = 24
  /\ Len(loc.color_data_string) = 24
  /\ Len(trace.fills) = 4
  /\ SubSeq(trace.fills, 1, 3) = << <<18, 52, 86>>, <<101, 67, 33>>, <<254, 220, 186>> >>

====
